---- MODULE Spec2Model ----
(***************************************************************************)
(* A model of pysup's Ticket client (src/pysup/support.py): the            *)
(* configuration built by the constructor, the four primitive HTTP         *)
(* operations, the verb dispatcher, the endpoint methods in their          *)
(* asynchronous and blocking forms, and the transport sessions the         *)
(* primitives open and close.                                              *)
(***************************************************************************)
EXTENDS Integers, Sequences, FiniteSets, TLC

VARIABLES
    env,        \* the external configuration read by decouple's config()
    ctor,       \* the keyword arguments the constructor was given
    BASE_URL,   \* self.BASE_URL
    HEADER,     \* self.HEADER
    tasks,      \* the calls in flight, one record per caller
    clients,    \* every AsyncClient ever constructed, in order of construction
    ncalls      \* the number of calls started so far

vars == <<env, ctor, BASE_URL, HEADER, tasks, clients, ncalls>>

----------------------------------------------------------------------------
(* Bounds of the model *)

\* callers that may have a call in flight at the same time (SpecConc)
MaxTasks == 2
\* calls started in one behaviour
MaxCalls == 2
\* the verb identifiers handed to request() are 0 .. MaxMethod
MaxMethod == 6

----------------------------------------------------------------------------
(* Python values: an int, a str, None and a dict are told apart by type *)

IntV(n) == [type |-> "int", int |-> n]
StrV(s) == [type |-> "str", str |-> s]
NoneV == [type |-> "NoneType"]
DictV(k, v) == [type |-> "dict", key |-> k, val |-> v]

\* the truth value Python gives a value in `if x:` and `x or y`
Truthy(v) ==
    CASE v.type = "NoneType" -> FALSE
      [] v.type = "int" -> v.int # 0
      [] v.type = "str" -> v.str # ""
      [] OTHER -> TRUE

\* x or y
Or(x, y) == IF Truthy(x) THEN x ELSE y

isinstance_int(v) == v.type = "int"

\* v is None
IsNone(v) == v.type = "NoneType"

Digit(d) ==
    CASE d = 0 -> "0" [] d = 1 -> "1" [] d = 2 -> "2" [] d = 3 -> "3"
      [] d = 4 -> "4" [] d = 5 -> "5" [] d = 6 -> "6" [] d = 7 -> "7"
      [] d = 8 -> "8" [] d = 9 -> "9"

RECURSIVE Decimal(_)
Decimal(n) == IF n < 10 THEN Digit(n) ELSE Decimal(n \div 10) \o Digit(n % 10)

\* str(n) of an int
str(n) == IF n < 0 THEN "-" \o Decimal(-n) ELSE Decimal(n)

\* the text an f-string puts for {v}
Format(v) ==
    CASE v.type = "int" -> str(v.int)
      [] v.type = "str" -> v.str
      [] v.type = "NoneType" -> "None"

----------------------------------------------------------------------------
(* class RequestMethod(Enum) *)

GET == 1
POST == 2
DELETE == 3
PATCH == 4
PUT == 5

----------------------------------------------------------------------------
(* __init__ *)

\* config(key): the value of the external setting
config(key) == env[key]

init_BASE_URL(base_url) == Or(base_url, StrV(config("SUPPORT_BASE_URL"))).str

init_HEADER(secret_token) ==
    [h \in {"Authorization", "Content-Type", "Accept"} |->
        CASE h = "Authorization" ->
                Or(secret_token, StrV("Bearer " \o config("SUPPORT_SECRET_TOKEN"))).str
          [] h = "Content-Type" -> "application/json"
          [] h = "Accept" -> "application/json"]

----------------------------------------------------------------------------
(* The primitive operations: the request each hands to its AsyncClient.    *)
(* params is the query string's mapping, json the body's.                  *)

get_body(url, data) ==
    [verb |-> "GET", url |-> url, headers |-> HEADER, params |-> NoneV, json |-> data]

get(url, data) ==
    [verb |-> "GET", url |-> url, headers |-> HEADER, params |-> data, json |-> NoneV]

post(url, data) ==
    [verb |-> "POST", url |-> url, headers |-> HEADER, params |-> NoneV, json |-> data]

put_default_headers(url, data) ==
    [verb |-> "PUT", url |-> url, headers |-> [h \in {"Accept"} |-> "*/*"],
     params |-> NoneV, json |-> data]

put(url, data) ==
    [verb |-> "PUT", url |-> url, headers |-> HEADER, params |-> NoneV, json |-> data]

delete(url) ==
    [verb |-> "DELETE", url |-> url, headers |-> HEADER, params |-> NoneV, json |-> NoneV]

(* A coroutine is modelled by what awaiting it does: exc is the exception  *)
(* raised before anything is sent ("" for none), reqs the primitive        *)
(* requests it awaits, in order; with no request and no exception it       *)
(* returns None.                                                           *)
Coro(reqs) == [exc |-> "", reqs |-> reqs]
Raises(exc) == [exc |-> exc, reqs |-> <<>>]

request_default_get(url, method, data) ==
    CASE method = GET -> Coro(<<get(url, data)>>)
      [] method = POST -> Coro(<<post(url, data)>>)
      [] method = PUT -> Coro(<<put(url, data)>>)
      [] method = DELETE -> Coro(<<delete(url)>>)
      [] OTHER -> Coro(<<get(url, data)>>)

\* match method: no case matches an unrecognized verb, and request returns None
request(url, method, data) ==
    CASE method = GET -> Coro(<<get(url, data)>>)
      [] method = POST -> Coro(<<post(url, data)>>)
      [] method = PUT -> Coro(<<put(url, data)>>)
      [] method = DELETE -> Coro(<<delete(url)>>)
      [] OTHER -> Coro(<<>>)

----------------------------------------------------------------------------
(* The asynchronous endpoint methods *)

log_list_async(log_id) ==
    LET id == IF isinstance_int(log_id) THEN StrV(str(log_id.int)) ELSE log_id
    IN  request(BASE_URL \o "/getLog/" \o Format(id), GET, NoneV)

department_list_async == request(BASE_URL \o "/department", GET, NoneV)

department_create_async(data) == request(BASE_URL \o "/department", POST, data)

department_get_async(department_id) ==
    request(BASE_URL \o "/department/" \o Format(department_id), GET, NoneV)

department_update_inverted(department_id, data, delete_) ==
    IF ~delete_
    THEN request(BASE_URL \o "/department/" \o Format(department_id), DELETE, NoneV)
    ELSE request(BASE_URL \o "/department/" \o Format(department_id), PUT, data)

department_update_async(department_id, data, delete_) ==
    IF delete_
    THEN request(BASE_URL \o "/department/" \o Format(department_id), DELETE, NoneV)
    ELSE request(BASE_URL \o "/department/" \o Format(department_id), PUT, data)

ticket_list_async(ticket_id) ==
    LET url == IF Truthy(ticket_id)
               THEN LET id == IF isinstance_int(ticket_id)
                              THEN StrV(str(ticket_id.int)) ELSE ticket_id
                    IN  BASE_URL \o "/ticket/" \o Format(id)
               ELSE BASE_URL \o "/ticket"
    IN  request(url, GET, NoneV)

ticket_replies_async(ticket_id) ==
    LET id == IF isinstance_int(ticket_id) THEN StrV(str(ticket_id.int)) ELSE ticket_id
    IN  request(BASE_URL \o "/ticket/" \o Format(id) \o "/replies", GET, NoneV)

ticket_update_async(ticket_id, data, delete_) ==
    IF delete_
    THEN request(BASE_URL \o "/ticket/" \o Format(ticket_id), DELETE, NoneV)
    ELSE request(BASE_URL \o "/ticket/" \o Format(ticket_id), PUT, data)

ticket_attach_async(file_id) ==
    request(BASE_URL \o "/file/" \o Format(file_id), GET, NoneV)

replies_create_async(data) == request(BASE_URL \o "/ticket-replies", POST, data)

replies_update_async(reply_id, data, delete_) ==
    IF delete_
    THEN request(BASE_URL \o "/ticket-replies/" \o Format(reply_id), DELETE, NoneV)
    ELSE request(BASE_URL \o "/ticket-replies/" \o Format(reply_id), PUT, data)

replies_get_async(reply_id) ==
    request(BASE_URL \o "/ticket-replies/" \o Format(reply_id), GET, NoneV)

\* the attributes of a Ticket that are asynchronous endpoint methods
AsyncMethods ==
    {"log_list_async", "department_list_async", "department_create_async",
     "department_get_async", "department_update_async", "ticket_list_async",
     "ticket_replies_async", "ticket_update_async", "ticket_attach_async",
     "replies_create_async", "replies_update_async", "replies_get_async"}

\* self.<name>(...): the coroutine, or AttributeError when Ticket has no such method
getattr_call(name, a) ==
    CASE name = "log_list_async" -> log_list_async(a.id)
      [] name = "department_list_async" -> department_list_async
      [] name = "department_create_async" -> department_create_async(a.data)
      [] name = "department_get_async" -> department_get_async(a.id)
      [] name = "department_update_async" -> department_update_async(a.id, a.data, a.delete)
      [] name = "ticket_list_async" -> ticket_list_async(a.id)
      [] name = "ticket_replies_async" -> ticket_replies_async(a.id)
      [] name = "ticket_update_async" -> ticket_update_async(a.id, a.data, a.delete)
      [] name = "ticket_attach_async" -> ticket_attach_async(a.id)
      [] name = "replies_create_async" -> replies_create_async(a.data)
      [] name = "replies_update_async" -> replies_update_async(a.id, a.data, a.delete)
      [] name = "replies_get_async" -> replies_get_async(a.id)
      [] OTHER -> Raises("AttributeError")

\* asyncio.run(coro): the coroutine run to completion on a fresh event loop
asyncio_run(coro) == coro

----------------------------------------------------------------------------
(* The blocking endpoint methods *)

\* keyword arguments of an endpoint call; method and url are request()'s own
Kw(id, data, delete_) ==
    [id |-> id, data |-> data, delete |-> delete_, method |-> 0, url |-> ""]

log_list_sync(log_id) ==
    asyncio_run(getattr_call("log_list_async", Kw(log_id, NoneV, FALSE)))

department_list_sync ==
    asyncio_run(getattr_call("department_list_async", Kw(NoneV, NoneV, FALSE)))

department_create_sync(data) ==
    asyncio_run(getattr_call("department_create_async", Kw(NoneV, data, FALSE)))

department_get_sync(department_id) ==
    asyncio_run(getattr_call("department_get_async", Kw(department_id, NoneV, FALSE)))

department_update_sync(department_id, data, delete_) ==
    asyncio_run(getattr_call("department_update_async", Kw(department_id, data, delete_)))

ticket_list_sync(ticket_id) ==
    asyncio_run(getattr_call("ticket_list_async", Kw(ticket_id, NoneV, FALSE)))

ticket_replies_sync(ticket_id) ==
    asyncio_run(getattr_call("ticket_replies_async", Kw(ticket_id, NoneV, FALSE)))

ticket_update_sync(ticket_id, data, delete_) ==
    asyncio_run(getattr_call("ticket_update_async", Kw(ticket_id, data, delete_)))

ticket_attach_sync(file_id) ==
    asyncio_run(getattr_call("ticket_attach_async", Kw(file_id, NoneV, FALSE)))

\* the method named here, ticket_replies_create_async, is not one Ticket defines
replies_create_sync(data) ==
    asyncio_run(getattr_call("ticket_replies_create_async", Kw(NoneV, data, FALSE)))

replies_update_sync(reply_id, data, delete_) ==
    asyncio_run(getattr_call("replies_update_async", Kw(reply_id, data, delete_)))

replies_get_sync(reply_id) ==
    asyncio_run(getattr_call("replies_get_async", Kw(reply_id, NoneV, FALSE)))

SyncMethods ==
    {"log_list_sync", "department_list_sync", "department_create_sync",
     "department_get_sync", "department_update_sync", "ticket_list_sync",
     "ticket_replies_sync", "ticket_update_sync", "ticket_attach_sync",
     "replies_create_sync", "replies_update_sync", "replies_get_sync"}

\* what a caller's call of the public method `name` with arguments a does
Invoke(name, a) ==
    CASE name = "request" -> request(a.url, a.method, a.data)
      [] name \in AsyncMethods -> getattr_call(name, a)
      [] name = "log_list_sync" -> log_list_sync(a.id)
      [] name = "department_list_sync" -> department_list_sync
      [] name = "department_create_sync" -> department_create_sync(a.data)
      [] name = "department_get_sync" -> department_get_sync(a.id)
      [] name = "department_update_sync" -> department_update_sync(a.id, a.data, a.delete)
      [] name = "ticket_list_sync" -> ticket_list_sync(a.id)
      [] name = "ticket_replies_sync" -> ticket_replies_sync(a.id)
      [] name = "ticket_update_sync" -> ticket_update_sync(a.id, a.data, a.delete)
      [] name = "ticket_attach_sync" -> ticket_attach_sync(a.id)
      [] name = "replies_create_sync" -> replies_create_sync(a.data)
      [] name = "replies_update_sync" -> replies_update_sync(a.id, a.data, a.delete)
      [] name = "replies_get_sync" -> replies_get_sync(a.id)

----------------------------------------------------------------------------
(* Responses, and what a primitive does with one *)

\* what comes back for a request: a response, or a transport failure
Arrivals ==
    {[error |-> "", status |-> 200, text |-> "{\"id\": 1}"],
     [error |-> "", status |-> 204, text |-> ""],
     [error |-> "", status |-> 302, text |-> ""],
     [error |-> "", status |-> 404, text |-> "{\"detail\": \"Not found\"}"],
     [error |-> "", status |-> 500, text |-> "<html>Server Error</html>"],
     [error |-> "ConnectError", status |-> 0, text |-> ""]}

NoArrival == [error |-> "", status |-> 0, text |-> ""]

\* the texts that decode as JSON
Decodes(text) == text \in {"{\"id\": 1}", "{\"detail\": \"Not found\"}"}

\* response.json() of a text that decodes
json(text) ==
    CASE text = "{\"id\": 1}" -> DictV("id", "1")
      [] text = "{\"detail\": \"Not found\"}" -> DictV("detail", "Not found")

Return(v) == [kind |-> "return", exc |-> "", status |-> 0, value |-> v]
Raise(exc, status) == [kind |-> "raise", exc |-> exc, status |-> status, value |-> NoneV]
Pending == [kind |-> "pending", exc |-> "", status |-> 0, value |-> NoneV]

raise_for_status_never(response) == FALSE

\* response.raise_for_status() raises: httpx raises for every status but 2xx
raise_for_status(response) == ~(200 <= response.status /\ response.status <= 299)

\* the rest of a primitive once its await of the client ends
response_result(arrival) ==
    IF arrival.error # "" THEN Raise(arrival.error, 0)
    ELSE IF raise_for_status(arrival) THEN Raise("HTTPStatusError", arrival.status)
    ELSE IF ~Decodes(arrival.text) THEN Raise("JSONDecodeError", 0)
    ELSE Return(json(arrival.text))

\* AsyncClient(): a new transport session, owned by the call that constructs it
AsyncClient(call) == Append(clients, [call |-> call, requests |-> 0, closed |-> FALSE])

aexit_on_success(id, raised) ==
    IF raised THEN clients ELSE [clients EXCEPT ![id].closed = TRUE]

\* leaving `async with`: the session is closed, whether or not the body raised
aexit(id, raised) == [clients EXCEPT ![id].closed = TRUE]

----------------------------------------------------------------------------
(* The state machine *)

Idle ==
    [pc |-> "idle", call |-> 0, name |-> "", args |-> Kw(NoneV, NoneV, FALSE),
     client |-> 0, sent |-> <<>>, response |-> NoArrival, result |-> Pending]

IntIds == {IntV(0), IntV(7), IntV(42)}
StrIds == {StrV("0"), StrV("42"), StrV("")}
Ids == IntIds \cup StrIds
Datas == {DictV("name", "Sales"), DictV("name", "IT")}

Suffixes == {"_async", "_sync"}

\* the calls a caller may make
Calls ==
    {[name |-> n \o s, args |-> Kw(i, NoneV, FALSE)] :
        n \in {"log_list", "ticket_replies", "ticket_attach"}, s \in Suffixes, i \in Ids}
    \cup {[name |-> "ticket_list" \o s, args |-> Kw(i, NoneV, FALSE)] :
            s \in Suffixes, i \in Ids \cup {NoneV}}
    \cup {[name |-> n \o s, args |-> Kw(i, NoneV, FALSE)] :
            n \in {"department_get", "replies_get"}, s \in Suffixes, i \in IntIds}
    \cup {[name |-> "department_list" \o s, args |-> Kw(NoneV, NoneV, FALSE)] :
            s \in Suffixes}
    \cup {[name |-> n \o s, args |-> Kw(NoneV, d, FALSE)] :
            n \in {"department_create", "replies_create"}, s \in Suffixes, d \in Datas}
    \cup {[name |-> n \o s, args |-> Kw(i, d, b)] :
            n \in {"department_update", "ticket_update", "replies_update"},
            s \in Suffixes, i \in IntIds, d \in Datas, b \in BOOLEAN}
    \cup {[name |-> "request",
           args |-> [id |-> NoneV, data |-> d, delete |-> FALSE, method |-> m,
                     url |-> BASE_URL \o "/ping"]] :
            m \in 0..MaxMethod, d \in Datas \cup {NoneV}}

\* the calls of the runs that interleave several callers
ConcCalls ==
    {[name |-> "department_list_async", args |-> Kw(NoneV, NoneV, FALSE)],
     [name |-> "department_create_async", args |-> Kw(NoneV, DictV("name", "Sales"), FALSE)],
     [name |-> "ticket_update_sync", args |-> Kw(IntV(7), DictV("name", "IT"), TRUE)],
     [name |-> "replies_create_sync", args |-> Kw(NoneV, DictV("name", "IT"), FALSE)],
     [name |-> "request",
      args |-> [id |-> NoneV, data |-> NoneV, delete |-> FALSE, method |-> PATCH,
                url |-> BASE_URL \o "/ping"]]}

\* the callers of the sequential runs and of the interleaved runs
Callers == {1}
ConcCallers == 1..MaxTasks

InFlight(t) == tasks[t].pc \in {"entered", "awaiting", "exiting"}

Init ==
    /\ env \in {[SUPPORT_BASE_URL |-> "https://env.test", SUPPORT_SECRET_TOKEN |-> k] :
                    k \in {"s3cret", "t0ken"}}
    /\ ctor \in [base_url : {NoneV, StrV("https://api.test")},
                 secret_token : {NoneV, StrV("s3cret")}]
    /\ BASE_URL = init_BASE_URL(ctor.base_url)
    /\ HEADER = init_HEADER(ctor.secret_token)
    /\ tasks = [t \in Callers |-> Idle]
    /\ clients = <<>>
    /\ ncalls = 0

InitConc ==
    /\ env = [SUPPORT_BASE_URL |-> "https://env.test", SUPPORT_SECRET_TOKEN |-> "t0ken"]
    /\ ctor \in [base_url : {StrV("https://api.test")},
                 secret_token : {NoneV, StrV("s3cret")}]
    /\ BASE_URL = init_BASE_URL(ctor.base_url)
    /\ HEADER = init_HEADER(ctor.secret_token)
    /\ tasks = [t \in ConcCallers |-> Idle]
    /\ clients = <<>>
    /\ ncalls = 0

\* caller t calls c: the method runs up to its first await. A method that
\* reaches a primitive has entered `async with AsyncClient()`.
Call(t, c) ==
    /\ tasks[t].pc = "idle"
    /\ ncalls < MaxCalls
    /\ ncalls' = ncalls + 1
    /\ LET co == Invoke(c.name, c.args)
           started == [Idle EXCEPT !.call = ncalls + 1, !.name = c.name, !.args = c.args]
       IN  IF co.exc # ""
           THEN /\ tasks' = [tasks EXCEPT ![t] =
                        [started EXCEPT !.pc = "done", !.result = Raise(co.exc, 0)]]
                /\ UNCHANGED clients
           ELSE IF co.reqs = <<>>
           THEN /\ tasks' = [tasks EXCEPT ![t] =
                        [started EXCEPT !.pc = "done", !.result = Return(NoneV)]]
                /\ UNCHANGED clients
           ELSE /\ clients' = AsyncClient(ncalls + 1)
                /\ tasks' = [tasks EXCEPT ![t] =
                        [started EXCEPT !.pc = "entered", !.client = Len(clients')]]
    /\ UNCHANGED <<env, ctor, BASE_URL, HEADER>>

\* await client.get/post/put/delete(...): the request goes out on the call's session
Send(t) ==
    /\ tasks[t].pc = "entered"
    /\ LET co == Invoke(tasks[t].name, tasks[t].args)
           req == [client |-> tasks[t].client, request |-> co.reqs[1]]
       IN  /\ tasks' = [tasks EXCEPT ![t].pc = "awaiting", ![t].sent = Append(@, req)]
           /\ clients' = [clients EXCEPT ![tasks[t].client].requests = @ + 1]
    /\ UNCHANGED <<env, ctor, BASE_URL, HEADER, ncalls>>

\* the await ends: raise_for_status() and json() decide the call's outcome
Respond(t) ==
    /\ tasks[t].pc = "awaiting"
    /\ \E a \in Arrivals :
        tasks' = [tasks EXCEPT ![t].pc = "exiting", ![t].response = a,
                               ![t].result = response_result(a)]
    /\ UNCHANGED <<env, ctor, BASE_URL, HEADER, clients, ncalls>>

\* the `async with` block is left and the outcome reaches the caller
Exit(t) ==
    /\ tasks[t].pc = "exiting"
    /\ clients' = aexit(tasks[t].client, tasks[t].result.kind = "raise")
    /\ tasks' = [tasks EXCEPT ![t].pc = "done"]
    /\ UNCHANGED <<env, ctor, BASE_URL, HEADER, ncalls>>

\* the caller takes the outcome and is free to call again
Finish(t) ==
    /\ tasks[t].pc = "done"
    /\ tasks' = [tasks EXCEPT ![t] = Idle]
    /\ UNCHANGED <<env, ctor, BASE_URL, HEADER, clients, ncalls>>

Next ==
    \E t \in Callers :
        \/ \E c \in Calls : Call(t, c)
        \/ Send(t)
        \/ Respond(t)
        \/ Exit(t)
        \/ Finish(t)

NextConc ==
    \E t \in ConcCallers :
        \/ \E c \in ConcCalls : Call(t, c)
        \/ Send(t)
        \/ Respond(t)
        \/ Exit(t)
        \/ Finish(t)

Spec == Init /\ [][Next]_vars

SpecConc == InitConc /\ [][NextConc]_vars

----------------------------------------------------------------------------
(* Properties *)

\* the requests caller t's present call has sent, each with the session it went out on
SentBy(t) == {tasks[t].sent[i] : i \in 1..Len(tasks[t].sent)}

\* the call of caller t is past its send
HasSent(t) == tasks[t].pc \in {"awaiting", "exiting", "done"} /\ tasks[t].client # 0

\* the call of caller t has received a response or a transport failure
HasOutcome(t) == tasks[t].pc \in {"exiting", "done"} /\ tasks[t].client # 0

AsyncOf(name) ==
    CASE name = "log_list_sync" -> "log_list_async"
      [] name = "department_list_sync" -> "department_list_async"
      [] name = "department_create_sync" -> "department_create_async"
      [] name = "department_get_sync" -> "department_get_async"
      [] name = "department_update_sync" -> "department_update_async"
      [] name = "ticket_list_sync" -> "ticket_list_async"
      [] name = "ticket_replies_sync" -> "ticket_replies_async"
      [] name = "ticket_update_sync" -> "ticket_update_async"
      [] name = "ticket_attach_sync" -> "ticket_attach_async"
      [] name = "replies_create_sync" -> "replies_create_async"
      [] name = "replies_update_sync" -> "replies_update_async"
      [] name = "replies_get_sync" -> "replies_get_async"

\* C1: a finished call of a blocking method has sent the request that awaiting
\* the asynchronous method of the same name with the same arguments sends, and
\* has the outcome that method has for the response received.
C1_SyncSameAsAsync ==
    \A t \in DOMAIN tasks :
        (tasks[t].pc = "done" /\ tasks[t].name \in SyncMethods) =>
            LET co == getattr_call(AsyncOf(tasks[t].name), tasks[t].args)
            IN  /\ [i \in 1..Len(tasks[t].sent) |-> tasks[t].sent[i].request] = co.reqs
                /\ tasks[t].result = response_result(tasks[t].response)

IsClientOrServerError(status) == 400 <= status /\ status <= 599

C3_DispatchPlacesPayload ==
    \A t \in DOMAIN tasks :
      /\ \A s \in SentBy(t) :
            /\ s.request.verb \in {"GET", "DELETE"} => IsNone(s.request.json)
            /\ s.request.verb \in {"POST", "PUT", "DELETE"} => IsNone(s.request.params)
      /\ (tasks[t].name = "request" /\ tasks[t].pc # "idle"
            /\ tasks[t].args.method \in {GET, POST, PUT, DELETE}) =>
            /\ tasks[t].client # 0
            /\ HasSent(t) => Len(tasks[t].sent) = 1
            /\ \A s \in SentBy(t) :
                LET q == s.request
                    m == tasks[t].args.method
                    d == tasks[t].args.data
                IN  /\ q.url = tasks[t].args.url
                    /\ m = GET => q.verb = "GET" /\ q.params = d /\ IsNone(q.json)
                    /\ m = POST => q.verb = "POST" /\ q.json = d /\ IsNone(q.params)
                    /\ m = PUT => q.verb = "PUT" /\ q.json = d /\ IsNone(q.params)
                    /\ m = DELETE =>
                        q.verb = "DELETE" /\ IsNone(q.json) /\ IsNone(q.params)

\* request() was handed DELETE together with data, and the request has gone out
C3_Witness ==
    \E t \in DOMAIN tasks :
        /\ tasks[t].name = "request"
        /\ tasks[t].args.method = DELETE
        /\ ~IsNone(tasks[t].args.data)
        /\ tasks[t].pc = "done"
        /\ Len(tasks[t].sent) = 1

UpdatePath(name) ==
    CASE name \in {"department_update_async", "department_update_sync"} -> "/department/"
      [] name \in {"ticket_update_async", "ticket_update_sync"} -> "/ticket/"
      [] name \in {"replies_update_async", "replies_update_sync"} -> "/ticket-replies/"

UpdateMethods ==
    {"department_update_async", "department_update_sync", "ticket_update_async",
     "ticket_update_sync", "replies_update_async", "replies_update_sync"}

\* C4: an update call sends exactly one request, to the resource's url with the
\* id: with delete a DELETE that carries no data, without it a PUT whose JSON
\* body is data.
C4_UpdateDeleteOrPut ==
    \A t \in DOMAIN tasks :
        (tasks[t].name \in UpdateMethods /\ tasks[t].pc # "idle") =>
            /\ tasks[t].client # 0
            /\ HasSent(t) => Len(tasks[t].sent) = 1
            /\ \A s \in SentBy(t) :
                LET q == s.request
                IN  /\ q.url = BASE_URL \o UpdatePath(tasks[t].name)
                                \o Decimal(tasks[t].args.id.int)
                    /\ IsNone(q.params)
                    /\ IF tasks[t].args.delete
                       THEN q.verb = "DELETE" /\ IsNone(q.json)
                       ELSE q.verb = "PUT" /\ q.json = tasks[t].args.data

\* a blocking department update with delete has sent its DELETE and finished
C4_Witness ==
    \E t \in DOMAIN tasks :
        /\ tasks[t].name = "department_update_sync"
        /\ tasks[t].args.delete
        /\ tasks[t].args.id = IntV(42)
        /\ tasks[t].pc = "done"
        /\ \E s \in SentBy(t) : s.request.verb = "DELETE"

\* an identifier: an integer or a string that is not empty
IsIdentifier(v) == v.type = "int" \/ (v.type = "str" /\ v # StrV(""))

\* C5: ticket_list without an identifier (None) requests BASE_URL/ticket; with
\* one it requests BASE_URL/ticket/ followed by the identifier's text, and an
\* integer's url is the url of the string of its digits.
C5_TicketListUrl ==
    \A t \in DOMAIN tasks :
        (tasks[t].name \in {"ticket_list_async", "ticket_list_sync"}
            /\ (IsNone(tasks[t].args.id) \/ IsIdentifier(tasks[t].args.id))) =>
            \A s \in SentBy(t) :
                /\ s.request.url =
                    IF IsNone(tasks[t].args.id) THEN BASE_URL \o "/ticket"
                    ELSE BASE_URL \o "/ticket/" \o Format(tasks[t].args.id)
                /\ tasks[t].args.id.type = "int" =>
                    <<s.request>> = ticket_list_async(StrV(str(tasks[t].args.id.int))).reqs

TableMethods ==
    {"log_list", "department_list", "department_create", "department_get",
     "ticket_replies", "ticket_attach", "replies_create", "replies_get"}

\* the verb and url the endpoint table fixes for a method
TableVerb(name) ==
    IF name \in {"department_create_async", "department_create_sync",
                 "replies_create_async", "replies_create_sync"}
    THEN "POST" ELSE "GET"

TableUrl(name, a) ==
    CASE name \in {"log_list_async", "log_list_sync"} ->
            BASE_URL \o "/getLog/" \o Format(a.id)
      [] name \in {"department_list_async", "department_list_sync",
                   "department_create_async", "department_create_sync"} ->
            BASE_URL \o "/department"
      [] name \in {"department_get_async", "department_get_sync"} ->
            BASE_URL \o "/department/" \o Format(a.id)
      [] name \in {"ticket_replies_async", "ticket_replies_sync"} ->
            BASE_URL \o "/ticket/" \o Format(a.id) \o "/replies"
      [] name \in {"ticket_attach_async", "ticket_attach_sync"} ->
            BASE_URL \o "/file/" \o Format(a.id)
      [] name \in {"replies_create_async", "replies_create_sync"} ->
            BASE_URL \o "/ticket-replies"
      [] name \in {"replies_get_async", "replies_get_sync"} ->
            BASE_URL \o "/ticket-replies/" \o Format(a.id)

\* C6: a finished call of an endpoint method of the table, whatever its
\* outcome, has sent exactly one request, with the table's verb and url.
C6_OneRequestPerCall ==
    \A t \in DOMAIN tasks :
        (tasks[t].pc = "done"
            /\ tasks[t].name \in {n \o s : n \in TableMethods, s \in Suffixes}) =>
            /\ Len(tasks[t].sent) = 1
            /\ \A s \in SentBy(t) :
                /\ s.request.verb = TableVerb(tasks[t].name)
                /\ s.request.url = TableUrl(tasks[t].name, tasks[t].args)

\* C7: every request sent carries the Authorization value and the Content-Type
\* application/json fixed by the constructor, and BASE_URL and HEADER are still
\* what the constructor made them.
C7_HeadersOnEveryRequest ==
    /\ BASE_URL = init_BASE_URL(ctor.base_url)
    /\ HEADER = init_HEADER(ctor.secret_token)
    /\ \A t \in DOMAIN tasks : \A s \in SentBy(t) :
        LET h == s.request.headers
        IN  /\ {"Authorization", "Content-Type"} \subseteq DOMAIN h
            /\ h["Authorization"] = init_HEADER(ctor.secret_token)["Authorization"]
            /\ h["Content-Type"] = "application/json"

\* the second call of a run has sent a PUT
C7_Witness ==
    \E t \in DOMAIN tasks :
        /\ tasks[t].call = 2
        /\ \E s \in SentBy(t) : s.request.verb = "PUT"

\* C8: request() with a verb identifier other than GET, POST, PUT and DELETE
\* opens no session, sends nothing and returns None without raising, while a
\* 500 response ends a call by raising.
C8_UnknownVerbReturnsNone ==
    \A t \in DOMAIN tasks :
        /\ (tasks[t].name = "request" /\ tasks[t].pc # "idle"
                /\ tasks[t].args.method \notin {GET, POST, PUT, DELETE}) =>
            /\ tasks[t].pc = "done"
            /\ tasks[t].sent = <<>>
            /\ tasks[t].client = 0
            /\ tasks[t].result = Return(NoneV)
        /\ (HasOutcome(t) /\ tasks[t].response.status = 500) =>
            /\ tasks[t].result.kind = "raise"
            /\ tasks[t].result # Return(NoneV)

\* request() has been called with RequestMethod.PATCH and with data
C8_Witness ==
    \E t \in DOMAIN tasks :
        /\ tasks[t].name = "request"
        /\ tasks[t].args.method = PATCH
        /\ ~IsNone(tasks[t].args.data)
        /\ tasks[t].pc = "done"
        /\ tasks[t].result = Return(NoneV)

\* C9: a session carries at most one request; an open session belongs to
\* exactly one call in flight, the one that constructed it; a call's request
\* goes out on the call's own session; a finished call's session is closed,
\* whether the call returned or raised; with no call in flight none is open.
C9_SessionPerCall ==
    /\ \A i \in 1..Len(clients) :
        /\ clients[i].requests <= 1
        /\ ~clients[i].closed =>
            Cardinality({t \in DOMAIN tasks :
                InFlight(t) /\ tasks[t].client = i
                    /\ tasks[t].call = clients[i].call}) = 1
    /\ \A t \in DOMAIN tasks :
        /\ InFlight(t) =>
            /\ tasks[t].client \in 1..Len(clients)
            /\ ~clients[tasks[t].client].closed
        /\ \A s \in SentBy(t) :
            /\ s.client = tasks[t].client
            /\ clients[s.client].call = tasks[t].call
            /\ clients[s.client].requests = 1
        /\ (tasks[t].pc = "done" /\ tasks[t].client # 0) =>
            clients[tasks[t].client].closed
    /\ \A t1, t2 \in DOMAIN tasks :
        (t1 # t2 /\ tasks[t1].client # 0) => tasks[t1].client # tasks[t2].client
    /\ (\A t \in DOMAIN tasks : ~InFlight(t)) =>
        \A i \in 1..Len(clients) : clients[i].closed

\* while one call awaits its response, another has ended by raising for a 500
C9_Witness ==
    \E t1, t2 \in DOMAIN tasks :
        /\ tasks[t1].pc = "awaiting"
        /\ tasks[t2].pc = "done"
        /\ tasks[t2].result = Raise("HTTPStatusError", 500)
        /\ tasks[t1].call < tasks[t2].call

\* C10: the Authorization header of every request is "Bearer " followed by the
\* token, whether the token came from secret_token or from the configuration.
C10_BearerHeader ==
    \A t \in DOMAIN tasks : \A s \in SentBy(t) :
        s.request.headers["Authorization"] =
            "Bearer " \o Or(ctor.secret_token, StrV(config("SUPPORT_SECRET_TOKEN"))).str

====
